---- MODULE Spec2Model ----
(***************************************************************************)
(* Hash-linked header chain with Proof-of-Work and the two "political"     *)
(* validity rules (src/src/c2_blockchain/p3_consensus.rs).                 *)
(*                                                                         *)
(* u64 values are modelled in 0..U64_MAX and the u32 nonce draw in         *)
(* 0..U32_MAX; arithmetic keeps its width: an addition that leaves         *)
(* 0..U64_MAX aborts when the build checks overflow and wraps otherwise.   *)
(*                                                                         *)
(* The chess state machine of src/src/c1_state_machine/p6_open_ended.rs    *)
(* is modelled next to it, on variables of its own.                        *)
(***************************************************************************)
EXTENDS Integers, Sequences, FiniteSets

VARIABLES
    overflow_checks,  \* build profile: TRUE = `+` aborts on overflow, FALSE = wraps
    pc,               \* position of the running scenario
    anchor,           \* the header verification starts from (`self` of verify_*)
    chain,            \* the headers handed to verify_* (`chain: &[Header]`)
    call,             \* arguments of the child() call in progress / last made
    valid_header,     \* child()'s local `valid_header`
    corrupt,          \* which field of which header a test overwrote
    verdict,          \* outcomes of the three verifiers
    locals,           \* build_contentious_forked_chain: headers built so far
    ret,              \* build_contentious_forked_chain: the returned triple
    game,             \* chess: the State the caller holds
    start,            \* chess: `starting_state` of the last next_state call
    transition,       \* chess: `t` of the last next_state call
    get_moves_call    \* chess: arguments and result of the last get_moves call

vars == <<overflow_checks, pc, anchor, chain, call, valid_header, corrupt,
          verdict, locals, ret, game, start, transition, get_moves_call>>

chess_vars == <<game, start, transition, get_moves_call>>

----------------------------------------------------------------------------
(* Bounds of the model *)

\* largest value of the modelled u64
U64_MAX == 255
\* largest value of the modelled u32 (range of generate_nonce)
U32_MAX == 127
\* longest chain built by the child()/corrupt scenario
MaxChain == 3
\* longest chain handed to the verifiers in the arbitrary-input scenario
MaxInput == 2

\* accepted chess moves in one game
MaxMoves == 9

\* longest chain grown from genesis for the parity rules
MaxGrown == 4

Modulus == U64_MAX + 1

----------------------------------------------------------------------------
(* Program constants *)

THRESHOLD == U64_MAX \div 100

FORK_HEIGHT == 2

BOARD_MAX_SIZE == 8
BOARD_MIN_SIZE == 0

\* outcome of an aborted u64 addition
Panic == -1

----------------------------------------------------------------------------
(* Header and hashing *)

Header(p, h, e, s, d) ==
    [parent |-> p, height |-> h, extrinsic |-> e, state |-> s, consensus_digest |-> d]

NoHeader == Header(Panic, Panic, Panic, Panic, Panic)

\* crate::hash: deterministic, reads every field, many-to-one
hash(t) ==
    LET mixed == (7 * t.parent + 13 * t.height + 31 * t.extrinsic
                  + 17 * t.state + 11 * t.consensus_digest + 415) % (2 * Modulus + 1)
    IN  mixed % Modulus

\* `a + b` on u64
AddU64(a, b) ==
    IF a + b <= U64_MAX THEN a + b
    ELSE IF overflow_checks THEN Panic ELSE (a + b) % Modulus

saturating_sub(a, b) == IF a > b THEN a - b ELSE 0

\* genesis that carries a nonce of its own
genesis_with_nonce == Header(0, 0, 0, 0, 1)

genesis == Header(0, 0, 0, 0, 0)

----------------------------------------------------------------------------
(* Header::child *)

\* child() that leaves `parent` at its default instead of hashing self
child_init_no_parent(self, extrinsic) ==
    Header(0, AddU64(self.height, 1), extrinsic, AddU64(self.state, extrinsic), 0)

\* child() that copies the height instead of incrementing it
child_init_same_height(self, extrinsic) ==
    Header(hash(self), self.height, extrinsic, AddU64(self.state, extrinsic), 0)

\* the struct literal of child(): height, parent, state, extrinsic, digest
child_init(self, extrinsic) ==
    Header(hash(self), AddU64(self.height, 1), extrinsic,
           AddU64(self.state, extrinsic), 0)

\* the literal aborted: one of its additions overflowed under overflow checks
aborted(h) == h.height = Panic \/ h.state = Panic

\* range of generate_nonce: a u32 widened to u64
Nonces == 0 .. U32_MAX

\* loop that draws a nonce and never stores it in the candidate
mine_assign_dropped(h, nonce) == h

\* `valid_header.consensus_digest = nonce`
mine_assign(h, nonce) == [h EXCEPT !.consensus_digest = nonce]

\* exit test off by one: accepts a hash equal to THRESHOLD
mine_accepts_le(h) == hash(h) <= THRESHOLD

\* the loop's exit test
mine_accepts(h) == hash(h) < THRESHOLD

----------------------------------------------------------------------------
(* Verification *)

\* verification that forgets the parent-hash rule
is_header_verified_no_parent(prev_header, header) ==
    IF saturating_sub(header.height, prev_header.height) # 1 THEN "false"
    ELSE LET sum == AddU64(prev_header.state, header.extrinsic)
         IN  IF sum = Panic THEN "panic"
             ELSE IF header.state = sum /\ hash(header) < THRESHOLD
                  THEN "true" ELSE "false"

\* verification that forgets the Proof-of-Work rule
is_header_verified_no_pow(prev_header, header) ==
    IF saturating_sub(header.height, prev_header.height) # 1 THEN "false"
    ELSE LET sum == AddU64(prev_header.state, header.extrinsic)
         IN  IF sum = Panic THEN "panic"
             ELSE IF header.parent = hash(prev_header) /\ header.state = sum
                  THEN "true" ELSE "false"

\* verification that compares the state with the previous state alone
is_header_verified_stale_state(prev_header, header) ==
    IF saturating_sub(header.height, prev_header.height) # 1 THEN "false"
    ELSE IF header.parent = hash(prev_header) /\ header.state = prev_header.state
            /\ hash(header) < THRESHOLD
         THEN "true" ELSE "false"

\* "true" / "false", or "panic" when the state addition aborts
is_header_verified(prev_header, header) ==
    IF saturating_sub(header.height, prev_header.height) # 1 THEN "false"
    ELSE LET valid_hash == header.parent = hash(prev_header)
             sum == AddU64(prev_header.state, header.extrinsic)
             valid_extrinsic == header.state = sum
             valid_consensus_digest == hash(header) < THRESHOLD
         IN  IF sum = Panic THEN "panic"
             ELSE IF valid_hash /\ valid_extrinsic /\ valid_consensus_digest
                  THEN "true" ELSE "false"

\* walk that never advances prev_header past the anchor
RECURSIVE walk_stale_prev(_, _, _)
walk_stale_prev(prev_header, ch, i) ==
    IF i > Len(ch) THEN "true"
    ELSE LET r == is_header_verified(prev_header, ch[i])
         IN  IF r # "true" THEN r ELSE walk_stale_prev(prev_header, ch, i + 1)

RECURSIVE walk(_, _, _)
walk(prev_header, ch, i) ==
    IF i > Len(ch) THEN "true"
    ELSE LET r == is_header_verified(prev_header, ch[i])
         IN  IF r # "true" THEN r ELSE walk(ch[i], ch, i + 1)

\* verifier that also demands Proof-of-Work of the anchor
verify_sub_chain_checks_anchor(self, ch) ==
    IF hash(self) >= THRESHOLD THEN "false" ELSE walk(self, ch, 1)

verify_sub_chain(self, ch) == walk(self, ch, 1)

\* parity rule applied from FORK_HEIGHT itself
even_rejects_at_fork(header) == header.height >= FORK_HEIGHT /\ header.state % 2 # 0

\* even rule applied to the first height after the fork only
even_rejects_first_only(header) ==
    header.height = FORK_HEIGHT + 1 /\ header.state % 2 # 0

even_rejects(header) == header.height > FORK_HEIGHT /\ header.state % 2 # 0

\* odd rule pasted from the even rule without changing the remainder
odd_rejects_pasted(header) == header.height > FORK_HEIGHT /\ header.state % 2 # 0

\* odd rule applied from FORK_HEIGHT itself
odd_rejects_at_fork(header) == header.height >= FORK_HEIGHT /\ header.state % 2 # 1

odd_rejects(header) == header.height > FORK_HEIGHT /\ header.state % 2 # 1

RECURSIVE walk_even(_, _, _)
walk_even(prev_header, ch, i) ==
    IF i > Len(ch) THEN "true"
    ELSE IF even_rejects(ch[i]) THEN "false"
    ELSE LET r == is_header_verified(prev_header, ch[i])
         IN  IF r # "true" THEN r ELSE walk_even(ch[i], ch, i + 1)

verify_sub_chain_even(self, ch) == walk_even(self, ch, 1)

RECURSIVE walk_odd(_, _, _)
walk_odd(prev_header, ch, i) ==
    IF i > Len(ch) THEN "true"
    ELSE IF odd_rejects(ch[i]) THEN "false"
    ELSE LET r == is_header_verified(prev_header, ch[i])
         IN  IF r # "true" THEN r ELSE walk_odd(ch[i], ch, i + 1)

\* odd verifier that also applies the parity rule to the anchor
verify_sub_chain_odd_checks_anchor(self, ch) ==
    IF odd_rejects(self) THEN "false" ELSE walk_odd(self, ch, 1)

verify_sub_chain_odd(self, ch) == walk_odd(self, ch, 1)

Verdicts(self, ch) ==
    [base |-> verify_sub_chain(self, ch),
     even |-> verify_sub_chain_even(self, ch),
     odd  |-> verify_sub_chain_odd(self, ch)]

NoVerdict == [base |-> "none", even |-> "none", odd |-> "none"]

----------------------------------------------------------------------------
(* Chess: pieces and move generation *)

Colors == {"White", "Black"}

get_other_color(color) == IF color = "Black" THEN "White" ELSE "Black"

dir(color) == IF color = "White" THEN -1 ELSE 1

Pawn(color) == [kind |-> "Pawn", color |-> color]
Bishop(color) == [kind |-> "Bishop", color |-> color]
Knight(color) == [kind |-> "Knight", color |-> color]
Rook(color) == [kind |-> "Rook", color |-> color]
Queen(color) == [kind |-> "Queen", color |-> color]
King(color) == [kind |-> "King", color |-> color]

\* no entry of the board map at a position
NoPiece == [kind |-> "None", color |-> "None"]

get_color(chess_piece) == chess_piece.color

\* `for i in BOARD_MIN_SIZE + 1..BOARD_MAX_SIZE`
Steps == (BOARD_MIN_SIZE + 1) .. (BOARD_MAX_SIZE - 1)

\* rook moves with the loop variable in all four directions
get_rook_moves_all_ways(pos) ==
    UNION {{<<pos[1] + i, pos[2]>>, <<pos[1] - i, pos[2]>>,
            <<pos[1], pos[2] + i>>, <<pos[1], pos[2] - i>>} : i \in Steps}

get_rook_moves(pos) ==
    UNION {{<<pos[1] + i, pos[2]>>, <<pos[1] - i, pos[2]>>,
            <<pos[1], pos[2] + i>>, <<pos[1], pos[2] - 1>>} : i \in Steps}

get_bishop_moves(pos) ==
    UNION {{<<pos[1] + i, pos[2] + i>>, <<pos[1] + i, pos[2] - i>>,
            <<pos[1] - i, pos[2] + i>>, <<pos[1] - i, pos[2] - i>>} : i \in Steps}

\* the candidate squares of a piece, before the board filter
chess_moves(chess_piece, pos) ==
    LET row == pos[1]
        col == pos[2]
    IN  CASE chess_piece.kind = "Bishop" -> get_bishop_moves(pos)
          [] chess_piece.kind = "Rook" -> get_rook_moves(pos)
          [] chess_piece.kind = "King" ->
                {<<row + 1, col + 1>>, <<row + 1, col>>, <<row + 1, col - 1>>,
                 <<row, col + 1>>, <<row, col - 1>>,
                 <<row - 1, col + 1>>, <<row - 1, col>>, <<row - 1, col - 1>>}
          [] chess_piece.kind = "Knight" ->
                {<<row + 2, col + 1>>, <<row + 2, col - 1>>,
                 <<row - 2, col + 1>>, <<row - 2, col - 1>>,
                 <<row + 1, col + 2>>, <<row + 1, col - 2>>,
                 <<row - 1, col + 2>>, <<row - 1, col - 2>>}
          [] chess_piece.kind = "Pawn" ->
                LET d == dir(chess_piece.color)
                IN  {<<row + d, col + 1>>, <<row - d, col - 1>>}
          [] chess_piece.kind = "Queen" ->
                get_rook_moves(pos) \cup get_bishop_moves(pos)

\* candidate squares outside the board are dropped
off_board(m) ==
    \/ m[1] > BOARD_MAX_SIZE
    \/ m[2] > BOARD_MAX_SIZE
    \/ m[1] <= BOARD_MIN_SIZE
    \/ m[2] <= BOARD_MIN_SIZE

get_moves(chess_piece, pos) ==
    {m \in chess_moves(chess_piece, pos) : ~off_board(m)}

----------------------------------------------------------------------------
(* Chess: State and next_state *)

Squares ==
    ((BOARD_MIN_SIZE + 1) .. BOARD_MAX_SIZE) \X ((BOARD_MIN_SIZE + 1) .. BOARD_MAX_SIZE)

Running == <<"Running">>
Finished(color) == <<"Finished", color>>

\* the back row of State::default, by column
BackRow(color) ==
    <<Rook(color), Knight(color), Bishop(color), Queen(color),
      King(color), Bishop(color), Knight(color), Rook(color)>>

\* State::default()
default ==
    [moves |-> 0,
     status |-> Running,
     side_color |-> "White",
     board |-> [pos \in {1, 2, 7, 8} \X (1 .. 8) |->
                   CASE pos[1] = 1 -> BackRow("Black")[pos[2]]
                     [] pos[1] = 2 -> Pawn("Black")
                     [] pos[1] = 7 -> Pawn("White")
                     [] pos[1] = 8 -> BackRow("White")[pos[2]]]]

\* HashMap::insert and HashMap::remove
insert(board, pos, element) ==
    [p \in DOMAIN board \cup {pos} |-> IF p = pos THEN element ELSE board[p]]
remove(board, pos) == [p \in DOMAIN board \ {pos} |-> board[p]]

\* board.get(pos): NoPiece stands for None
board_get(board, pos) == IF pos \in DOMAIN board THEN board[pos] ELSE NoPiece

incre_move(self) == [self EXCEPT !.moves = @ + 1]

\* the state after the call and the piece the call returns (NoPiece for None)
board_move(self, from_pos, to_pos) ==
    LET element == board_get(self.board, from_pos)
    IN  IF element # NoPiece
        THEN LET option == board_get(self.board, to_pos)
                 inserted == [self EXCEPT !.board = insert(@, to_pos, element)]
             IN  IF option # NoPiece
                 THEN [state |-> inserted, killed |-> option]
                 ELSE [state |-> incre_move([inserted EXCEPT !.board = remove(@, from_pos)]),
                       killed |-> NoPiece]
        ELSE [state |-> incre_move(self), killed |-> NoPiece]

next_color(self, color) == [self EXCEPT !.side_color = get_other_color(color)]

Move(chess_piece, from, to) == [chess_piece |-> chess_piece, from |-> from, to |-> to]

\* the Ok path of process_state
process_state(starting_state, t) ==
    LET chess_piece_color == get_color(t.chess_piece)
        enemy_color == get_other_color(chess_piece_color)
        moved == board_move(starting_state, t.from, t.to)
        updated_state ==
            IF moved.killed = King(enemy_color)
            THEN [moved.state EXCEPT !.status = Finished(chess_piece_color)]
            ELSE moved.state
    IN  next_color(updated_state, chess_piece_color)

\* next_state that lets either side move
next_state_any_side(starting_state, t) ==
    LET chess_piece_color == get_color(t.chess_piece)
        possible_moves == get_moves(t.chess_piece, t.from)
    IN  IF board_get(starting_state.board, t.from) # t.chess_piece
        THEN starting_state
        ELSE IF t.to \notin possible_moves
        THEN starting_state
        ELSE IF \E possible_move \in possible_moves :
                    LET board_chess == board_get(starting_state.board, possible_move)
                    IN  board_chess # NoPiece /\ get_color(board_chess) = chess_piece_color
        THEN starting_state
        ELSE process_state(starting_state, t)

next_state(starting_state, t) ==
    LET chess_piece_color == get_color(t.chess_piece)
        possible_moves == get_moves(t.chess_piece, t.from)
    IN  IF chess_piece_color # starting_state.side_color
        THEN starting_state
        ELSE IF board_get(starting_state.board, t.from) # t.chess_piece
        THEN starting_state
        ELSE IF t.to \notin possible_moves
        THEN starting_state
        ELSE IF \E possible_move \in possible_moves :
                    LET board_chess == board_get(starting_state.board, possible_move)
                    IN  board_chess # NoPiece /\ get_color(board_chess) = chess_piece_color
        THEN starting_state
        ELSE process_state(starting_state, t)

NoTransition == Move(NoPiece, <<0, 0>>, <<0, 0>>)

NoGetMoves == [chess_piece |-> NoPiece, pos |-> <<0, 0>>, moves |-> {}]

\* no chess game is played in the header-chain scenarios
ChessIdle ==
    /\ game = default
    /\ start = default
    /\ transition = NoTransition
    /\ get_moves_call = NoGetMoves

----------------------------------------------------------------------------
(* Scenario 1: chains mined with child(), one field overwritten, verified *)

NoCall == [self |-> NoHeader, extrinsic |-> Panic]
NoCorrupt == [at |-> 0, field |-> "none", was |-> Panic]

\* a header high enough for its descendants to reach the top of u64
HighHeader == Header(3, U64_MAX - 1, 1, U64_MAX - 2, 0)

Extrinsics == {1, 2, U64_MAX}

Fields == {"parent", "height", "state", "consensus_digest"}

\* values a test writes over a field
CorruptValues(field) ==
    IF field = "consensus_digest" THEN Nonces ELSE {0, 10}

Tip == IF chain = <<>> THEN anchor ELSE chain[Len(chain)]

Init ==
    /\ overflow_checks \in BOOLEAN
    /\ pc = "idle"
    /\ anchor \in {genesis, HighHeader}
    /\ chain = <<>>
    /\ call = NoCall
    /\ valid_header = NoHeader
    /\ corrupt = NoCorrupt
    /\ verdict = NoVerdict
    /\ locals = <<>>
    /\ ret = <<>>
    /\ ChessIdle

\* child(): entry and the struct literal
Child(extrinsic) ==
    /\ pc = "idle"
    /\ corrupt = NoCorrupt
    /\ Len(chain) < MaxChain
    /\ call' = [self |-> Tip, extrinsic |-> extrinsic]
    /\ valid_header' = child_init(Tip, extrinsic)
    /\ pc' = IF aborted(valid_header') THEN "panicked" ELSE "mining"
    /\ UNCHANGED chess_vars
    /\ UNCHANGED <<overflow_checks, anchor, chain, corrupt, verdict, locals, ret>>

\* child(): one iteration of the mining loop
Mine(nonce) ==
    /\ pc = "mining"
    /\ valid_header' = mine_assign(valid_header, nonce)
    /\ IF mine_accepts(valid_header')
       THEN /\ chain' = Append(chain, valid_header')
            /\ pc' = "idle"
       ELSE UNCHANGED <<chain, pc>>
    /\ UNCHANGED chess_vars
    /\ UNCHANGED <<overflow_checks, anchor, call, corrupt, verdict, locals, ret>>

\* a test overwrites one field of one header (b1.parent = 10, ...)
Corrupt(i, field, v) ==
    /\ pc = "idle"
    /\ corrupt = NoCorrupt
    /\ i \in 1 .. Len(chain)
    /\ v # chain[i][field]
    /\ chain' = [chain EXCEPT ![i][field] = v]
    /\ corrupt' = [at |-> i, field |-> field, was |-> chain[i][field]]
    /\ UNCHANGED chess_vars
    /\ UNCHANGED <<overflow_checks, pc, anchor, call, valid_header, verdict, locals, ret>>

\* the test's verify_sub_chain* calls
Verify ==
    /\ pc = "idle"
    /\ verdict' = Verdicts(anchor, chain)
    /\ pc' = "verified"
    /\ UNCHANGED chess_vars
    /\ UNCHANGED <<overflow_checks, anchor, chain, call, valid_header, corrupt, locals, ret>>

Next ==
    \/ \E e \in Extrinsics : Child(e)
    \/ \E nonce \in Nonces : Mine(nonce)
    \/ \E i \in 1 .. MaxChain, field \in Fields :
          \E v \in CorruptValues(field) : Corrupt(i, field, v)
    \/ Verify

Spec == Init /\ [][Next]_vars

----------------------------------------------------------------------------
(* Scenario 1 with fair nonce draws: one child() call *)

NextMine ==
    \/ chain = <<>> /\ \E e \in Extrinsics : Child(e)
    \/ \E nonce \in Nonces : Mine(nonce)

\* thread_rng draws every value of the u32 range again and again
FairDraws == \A nonce \in Nonces : WF_vars(Mine(nonce))

SpecMine == Init /\ [][NextMine]_vars /\ FairDraws

----------------------------------------------------------------------------
(* Scenario 2: the verifiers on arbitrary anchors and chains *)

Anchors ==
    {genesis,
     Header(9, FORK_HEIGHT, 1, 4, 0),
     Header(40, FORK_HEIGHT + 1, 1, 4, 0),
     Header(3, U64_MAX - 1, 1, U64_MAX - 2, 0)}

\* digests a miner can draw that pass Proof-of-Work for header h
PassingDigests(h) ==
    {d \in Nonces : hash([h EXCEPT !.consensus_digest = d]) < THRESHOLD}

\* the header that extends prev with extrinsic e, before its digest is chosen
Extension(prev, e) ==
    Header(hash(prev), (prev.height + 1) % Modulus, e, (prev.state + e) % Modulus, 0)

\* x with each digest that passes Proof-of-Work: every outcome of mining x
Mined(x) == {[x EXCEPT !.consensus_digest = d] : d \in PassingDigests(x)}

InputExtrinsics == {1, 2, U64_MAX}

\* headers a caller may put after prev: extensions with a passing digest,
\* and the same with one field off
InputHeaders(prev) ==
    UNION {
        LET x == Extension(prev, e)
        IN  Mined(x)
            \cup Mined([x EXCEPT !.parent = 10])
            \cup Mined([x EXCEPT !.height = prev.height])
            \cup Mined([x EXCEPT !.height = 10])
            \cup Mined([x EXCEPT !.state = prev.state])
            \cup {[x EXCEPT !.consensus_digest = 10]}
        : e \in InputExtrinsics}

InitVerify ==
    /\ overflow_checks \in BOOLEAN
    /\ pc = "input"
    /\ anchor \in Anchors
    /\ chain = <<>>
    /\ call = NoCall
    /\ valid_header = NoHeader
    /\ corrupt = NoCorrupt
    /\ verdict = NoVerdict
    /\ locals = <<>>
    /\ ret = <<>>
    /\ ChessIdle

\* the caller appends one more header to the slice it will pass
Push(header) ==
    /\ pc = "input"
    /\ Len(chain) < MaxInput
    /\ chain' = Append(chain, header)
    /\ UNCHANGED chess_vars
    /\ UNCHANGED <<overflow_checks, pc, anchor, call, valid_header, corrupt,
                   verdict, locals, ret>>

\* anchor.verify_sub_chain(chain), _even and _odd
VerifyInput ==
    /\ pc = "input"
    /\ verdict' = Verdicts(anchor, chain)
    /\ pc' = "verified"
    /\ UNCHANGED chess_vars
    /\ UNCHANGED <<overflow_checks, anchor, chain, call, valid_header, corrupt,
                   locals, ret>>

NextVerify ==
    \/ /\ pc = "input"
       /\ Len(chain) < MaxInput
       /\ \E header \in InputHeaders(Tip) : Push(header)
    \/ VerifyInput

SpecVerify == InitVerify /\ [][NextVerify]_vars

----------------------------------------------------------------------------
(* Scenario 2 from genesis: longer chains of well-formed headers *)

GrowExtrinsics == {1, 2, 3, 4}

InitGrow ==
    /\ InitVerify
    /\ anchor = genesis

\* the caller appends the mined extension of the tip with extrinsic e
Grow(e) ==
    /\ pc = "input"
    /\ Len(chain) < MaxGrown
    /\ \E header \in Mined(Extension(Tip, e)) : chain' = Append(chain, header)
    /\ UNCHANGED chess_vars
    /\ UNCHANGED <<overflow_checks, pc, anchor, call, valid_header, corrupt,
                   verdict, locals, ret>>

NextGrow ==
    \/ \E e \in GrowExtrinsics : Grow(e)
    \/ VerifyInput

SpecGrow == InitGrow /\ [][NextGrow]_vars

----------------------------------------------------------------------------
(* Scenario 3: build_contentious_forked_chain and bc_3_verify_forked_chain *)

\* builder whose odd branch starts with the even branch's extrinsic
ForkPlanSameExtrinsic ==
    << [self |-> 1, extrinsic |-> 5],
       [self |-> 2, extrinsic |-> 6],
       [self |-> 3, extrinsic |-> 3],
       [self |-> 4, extrinsic |-> 2],
       [self |-> 3, extrinsic |-> 3],
       [self |-> 6, extrinsic |-> 2] >>

\* the child() calls in source order: index of `self` among the headers built
\* so far (1 = g, 2 = b1, 3 = b2, 4 = even_a, 5 = even_b, 6 = odd_a) and extrinsic
ForkPlan ==
    << [self |-> 1, extrinsic |-> 5],
       [self |-> 2, extrinsic |-> 6],
       [self |-> 3, extrinsic |-> 3],
       [self |-> 4, extrinsic |-> 2],
       [self |-> 3, extrinsic |-> 4],
       [self |-> 6, extrinsic |-> 2] >>

\* builder that returns the two suffixes in the wrong order
fork_result_swapped(l) == << <<l[2], l[3]>>, <<l[6], l[7]>>, <<l[4], l[5]>> >>

\* the returned (chain.clone(), even suffix, odd suffix)
fork_result(l) == << <<l[2], l[3]>>, <<l[4], l[5]>>, <<l[6], l[7]>> >>

InitFork ==
    /\ overflow_checks \in BOOLEAN
    /\ pc = "start"
    /\ anchor = NoHeader
    /\ chain = <<>>
    /\ call = NoCall
    /\ valid_header = NoHeader
    /\ corrupt = NoCorrupt
    /\ verdict = [even_chain |-> NoVerdict, odd_chain |-> NoVerdict]
    /\ locals = <<>>
    /\ ret = <<>>
    /\ ChessIdle

\* let g = Header::genesis()
ForkGenesis ==
    /\ pc = "start"
    /\ locals' = <<genesis>>
    /\ pc' = "next"
    /\ UNCHANGED chess_vars
    /\ UNCHANGED <<overflow_checks, anchor, chain, call, valid_header, corrupt,
                   verdict, ret>>

\* the next child() call of the builder: entry and struct literal
ForkChild ==
    /\ pc = "next"
    /\ Len(locals) <= Len(ForkPlan)
    /\ LET step == ForkPlan[Len(locals)]
       IN  /\ call' = [self |-> locals[step.self], extrinsic |-> step.extrinsic]
           /\ valid_header' = child_init(locals[step.self], step.extrinsic)
    /\ pc' = IF aborted(valid_header') THEN "panicked" ELSE "mining"
    /\ UNCHANGED chess_vars
    /\ UNCHANGED <<overflow_checks, anchor, chain, corrupt, verdict, locals, ret>>

\* one iteration of the mining loop inside that call
ForkMine(nonce) ==
    /\ pc = "mining"
    /\ valid_header' = mine_assign(valid_header, nonce)
    /\ IF mine_accepts(valid_header')
       THEN /\ locals' = Append(locals, valid_header')
            /\ pc' = "next"
       ELSE UNCHANGED <<locals, pc>>
    /\ UNCHANGED chess_vars
    /\ UNCHANGED <<overflow_checks, anchor, chain, call, corrupt, verdict, ret>>

\* return (chain.clone(), vec![..], vec![..])
ForkReturn ==
    /\ pc = "next"
    /\ Len(locals) = Len(ForkPlan) + 1
    /\ ret' = fork_result(locals)
    /\ pc' = "returned"
    /\ UNCHANGED chess_vars
    /\ UNCHANGED <<overflow_checks, anchor, chain, call, valid_header, corrupt,
                   verdict, locals>>

\* bc_3_verify_forked_chain: g = &prefix[0], the two full chains, six verdicts
ForkTest ==
    /\ pc = "returned"
    /\ LET prefix == ret[1]
           g == prefix[1]
           full_even_chain == Tail(prefix) \o ret[2]
           full_odd_chain == Tail(prefix) \o ret[3]
       IN  /\ anchor' = g
           /\ verdict' = [even_chain |-> Verdicts(g, full_even_chain),
                          odd_chain |-> Verdicts(g, full_odd_chain)]
    /\ pc' = "tested"
    /\ UNCHANGED chess_vars
    /\ UNCHANGED <<overflow_checks, chain, call, valid_header, corrupt, locals, ret>>

NextFork ==
    \/ ForkGenesis
    \/ ForkChild
    \/ \E nonce \in Nonces : ForkMine(nonce)
    \/ ForkReturn
    \/ ForkTest

SpecFork == InitFork /\ [][NextFork]_vars

----------------------------------------------------------------------------
(* Scenario 4: a chess game played through next_state *)

Abs(x) == IF x < 0 THEN -x ELSE x

\* the squares a caller names as `to`: `from` and its neighbours
Near(from) == {to \in Squares : Abs(to[1] - from[1]) <= 1 /\ Abs(to[2] - from[2]) <= 1}

\* the pieces a caller claims to stand on `from`
Claimed(from) == ({board_get(game.board, from)} \ {NoPiece}) \cup {Pawn("White")}

\* no header chain is built in the chess scenario
InitChess ==
    /\ overflow_checks = TRUE
    /\ pc = "chess"
    /\ anchor = NoHeader
    /\ chain = <<>>
    /\ call = NoCall
    /\ valid_header = NoHeader
    /\ corrupt = NoCorrupt
    /\ verdict = NoVerdict
    /\ locals = <<>>
    /\ ret = <<>>
    /\ ChessIdle

\* State::next_state(&state, &Transition::Move { .. }); the caller plays on
\* from the returned state while its moves change the state
ChessMove(chess_piece, from, to) ==
    /\ pc = "chess"
    /\ game.moves < MaxMoves
    /\ start' = game
    /\ transition' = Move(chess_piece, from, to)
    /\ game' = next_state(game, Move(chess_piece, from, to))
    /\ pc' = IF game' = game THEN "unchanged" ELSE "chess"
    /\ UNCHANGED <<overflow_checks, anchor, chain, call, valid_header, corrupt,
                   verdict, locals, ret, get_moves_call>>

NextChess ==
    \E from \in Squares : \E chess_piece \in Claimed(from) : \E to \in Near(from) :
        ChessMove(chess_piece, from, to)

SpecChess == InitChess /\ [][NextChess]_vars

----------------------------------------------------------------------------
(* Scenario 5: get_moves for every piece on every square *)

Pieces ==
    UNION {{Pawn(c), Bishop(c), Knight(c), Rook(c), Queen(c), King(c)} : c \in Colors}

InitMoves ==
    /\ overflow_checks = TRUE
    /\ pc = "moves"
    /\ anchor = NoHeader
    /\ chain = <<>>
    /\ call = NoCall
    /\ valid_header = NoHeader
    /\ corrupt = NoCorrupt
    /\ verdict = NoVerdict
    /\ locals = <<>>
    /\ ret = <<>>
    /\ ChessIdle

\* chess_piece.get_moves(pos)
GetMoves(chess_piece, pos) ==
    /\ pc = "moves"
    /\ get_moves_call' = [chess_piece |-> chess_piece, pos |-> pos,
                          moves |-> get_moves(chess_piece, pos)]
    /\ UNCHANGED <<overflow_checks, pc, anchor, chain, call, valid_header, corrupt,
                   verdict, locals, ret, game, start, transition>>

NextMoves == \E chess_piece \in Pieces : \E pos \in Squares : GetMoves(chess_piece, pos)

SpecMoves == InitMoves /\ [][NextMoves]_vars

----------------------------------------------------------------------------
(* Properties *)

\* the header before chain[i] on the verification walk
PrevOf(i) == IF i = 1 THEN anchor ELSE chain[i - 1]

\* a + b as a u64 holds it: the exact sum under overflow checks (a sum past
\* U64_MAX has no value), the sum modulo 2^64 in a wrapping build
Sum64(a, b) == IF overflow_checks THEN a + b ELSE (a + b) % Modulus

\* invariants 1-4 for one consecutive pair
Linked(prev, header) ==
    /\ header.height = prev.height + 1
    /\ header.parent = hash(prev)
    /\ header.state = Sum64(prev.state, header.extrinsic)
    /\ hash(header) < THRESHOLD

PastFork(ch) == {i \in 1 .. Len(ch) : ch[i].height > FORK_HEIGHT}

\* C1: verify_sub_chain(anchor, chain) returns true if and only if every
\* consecutive pair from (anchor, chain[0]) to (chain[n-2], chain[n-1]) has
\* height + 1, parent = Hash(prev), state = prev.state + extrinsic (as u64)
\* and Hash(header) < THRESHOLD.
C1_VerifyIffEveryPairLinked ==
    pc = "verified" =>
        (verdict.base = "true"
            <=> \A i \in 1 .. Len(chain) : Linked(PrevOf(i), chain[i]))

C1_Witness ==
    /\ pc = "verified"
    /\ Len(chain) = 2
    /\ verdict.base = "true"
    /\ chain[2].state < chain[1].state

\* C2: a chain built only by child() calls from genesis, with any extrinsics,
\* is accepted by verify_sub_chain(genesis, chain).
C2_ChildChainAccepted ==
    (pc = "verified" /\ corrupt = NoCorrupt /\ anchor = genesis)
        => verdict.base = "true"

C2_Witness ==
    /\ pc = "verified"
    /\ corrupt = NoCorrupt
    /\ anchor = genesis
    /\ Len(chain) >= 2
    /\ verdict.base = "true"

\* C3: every header child() returned satisfies Hash(header) < THRESHOLD,
\* whatever nonces were drawn.
C3_ReturnedHeaderHasProofOfWork ==
    corrupt = NoCorrupt =>
        \A i \in 1 .. Len(chain) : hash(chain[i]) < THRESHOLD

C3_Witness ==
    /\ pc = "idle"
    /\ corrupt = NoCorrupt
    /\ Len(chain) >= 1
    /\ valid_header = chain[Len(chain)]
    /\ hash(valid_header) < THRESHOLD

\* C4: c = h.child(e) has height = h.height + 1, parent = Hash(h),
\* extrinsic = e and state = h.state + e (as u64), during every iteration of
\* the mining loop and on return, whichever nonces are drawn.
C4_ChildFieldsDeterministic ==
    (pc \in {"mining", "idle"} /\ call # NoCall /\ corrupt = NoCorrupt) =>
        LET c == valid_header
            h == call.self
            e == call.extrinsic
        IN  /\ pc = "idle" => c = chain[Len(chain)]
            /\ c.height = Sum64(h.height, 1)
            /\ c.parent = hash(h)
            /\ c.extrinsic = e
            /\ c.state = Sum64(h.state, e)

C4_Witness ==
    /\ pc = "idle"
    /\ call # NoCall
    /\ corrupt = NoCorrupt
    /\ call.self # genesis
    /\ chain[Len(chain)].height = call.self.height + 1
    /\ chain[Len(chain)].consensus_digest > 0

\* the chain as it was before the test overwrote a field
Original == [chain EXCEPT ![corrupt.at][corrupt.field] = corrupt.was]

\* the overwritten header still passes: only its digest changed, its hash is
\* below THRESHOLD, and the next header (if any) still names it as parent
StillPasses ==
    /\ corrupt.field = "consensus_digest"
    /\ hash(chain[corrupt.at]) < THRESHOLD
    /\ \/ corrupt.at = Len(chain)
       \/ chain[corrupt.at + 1].parent = hash(chain[corrupt.at])

\* C5 as stated: in a chain accepted from its anchor, replacing one of parent,
\* height, state or consensus_digest of one header by a different value makes
\* verify_sub_chain return false.
C5_AnyFieldChangeRejected ==
    (pc = "verified" /\ corrupt # NoCorrupt
        /\ verify_sub_chain(anchor, Original) = "true")
        => verdict.base = "false"

\* C5 amended: replacing parent, height or state makes verify_sub_chain return
\* false; replacing consensus_digest makes it return false unless the new
\* hash is still below THRESHOLD and the header is the last one or the next
\* header's parent equals the new hash, and then the chain is still accepted.
C5_FieldChangeRejectedUnlessDigestPasses ==
    (pc = "verified" /\ corrupt # NoCorrupt
        /\ verify_sub_chain(anchor, Original) = "true")
        => /\ ~StillPasses => verdict.base = "false"
           /\ StillPasses => verdict.base = "true"

C5_Witness ==
    /\ pc = "verified"
    /\ corrupt.field = "state"
    /\ corrupt.at < Len(chain)
    /\ verify_sub_chain(anchor, Original) = "true"
    /\ verdict.base = "false"

\* C6: verify_sub_chain_even is true exactly when verify_sub_chain is true and
\* every header with height > FORK_HEIGHT has an even state; the same for
\* verify_sub_chain_odd with an odd state.
C6_ParityVerifiersRefineBase ==
    pc = "verified" =>
        /\ verdict.even = "true"
            <=> (verdict.base = "true"
                 /\ \A i \in PastFork(chain) : chain[i].state % 2 = 0)
        /\ verdict.odd = "true"
            <=> (verdict.base = "true"
                 /\ \A i \in PastFork(chain) : chain[i].state % 2 = 1)

C6_Witness ==
    /\ pc = "verified"
    /\ verdict.base = "true"
    /\ verdict.even = "true"
    /\ verdict.odd = "false"
    /\ PastFork(chain) = {1, 2}

\* C7: for a chain with at least one header of height > FORK_HEIGHT,
\* verify_sub_chain_even and verify_sub_chain_odd are never both true.
C7_EvenOddExclusivePastFork ==
    (pc = "verified" /\ PastFork(chain) # {})
        => ~(verdict.even = "true" /\ verdict.odd = "true")

C7_Witness ==
    /\ pc = "verified"
    /\ PastFork(chain) # {}
    /\ verdict.odd = "true"
    /\ verdict.even = "false"

\* C8: with prefix[0] as anchor, prefix[1..] ++ even is accepted by
\* verify_sub_chain and verify_sub_chain_even and rejected by
\* verify_sub_chain_odd; prefix[1..] ++ odd is accepted by verify_sub_chain and
\* verify_sub_chain_odd and rejected by verify_sub_chain_even, for every
\* sequence of nonces.
C8_ForkedChainsVerdicts ==
    pc = "tested" =>
        /\ verdict.even_chain = [base |-> "true", even |-> "true", odd |-> "false"]
        /\ verdict.odd_chain = [base |-> "true", even |-> "false", odd |-> "true"]

C8_Witness ==
    /\ pc = "tested"
    /\ anchor = ret[1][1]
    /\ verdict.even_chain.even = "true"
    /\ verdict.odd_chain.odd = "true"

\* C9: the first header of each suffix has parent = Hash(last prefix header)
\* and height = that header's height + 1, and the suffixes share no header.
C9_SuffixesForkFromPrefixTip ==
    pc \in {"returned", "tested"} =>
        LET tip == ret[1][Len(ret[1])]
        IN  /\ ret[2][1].parent = hash(tip)
            /\ ret[2][1].height = tip.height + 1
            /\ ret[3][1].parent = hash(tip)
            /\ ret[3][1].height = tip.height + 1
            /\ \A i \in 1 .. Len(ret[2]), j \in 1 .. Len(ret[3]) :
                  ret[2][i] # ret[3][j]

C9_Witness ==
    /\ pc = "returned"
    /\ Len(ret[2]) = 2
    /\ Len(ret[3]) = 2
    /\ ret[2][1].parent = ret[3][1].parent
    /\ ret[2][1] # ret[3][1]

\* C10: the common prefix returned by build_contentious_forked_chain starts
\* with the genesis header.
C10_PrefixStartsWithGenesis ==
    pc \in {"returned", "tested"} => ret[1][1] = genesis

\* child() is in its loop and a nonce of the draw range takes the candidate's
\* hash below THRESHOLD
MiningMinable == pc = "mining" /\ PassingDigests(valid_header) # {}

\* child() is in its loop and no nonce of the draw range passes
MiningStuck == pc = "mining" /\ PassingDigests(valid_header) = {}

Returned == pc = "idle"

\* one iteration returns exactly when the drawn nonce passes
FirstSuccess ==
    pc = "mining" =>
        IF hash(valid_header') < THRESHOLD
        THEN pc' = "idle" /\ chain' = Append(chain, valid_header')
        ELSE pc' = "mining" /\ chain' = chain

\* C11: with fair nonce draws and a nonce of the draw range whose hash is
\* below THRESHOLD, child() eventually returns, and it returns at the first
\* draw that passes; when no nonce of the range passes the loop never exits.
C11_FairMiningReturnsAtFirstSuccess ==
    /\ MiningMinable ~> Returned
    /\ [][FirstSuccess]_vars
    /\ [][MiningStuck => MiningStuck']_vars

C11_Witness ==
    /\ pc = "idle"
    /\ Len(chain) = 1
    /\ call.self = anchor
    /\ Cardinality(PassingDigests(chain[1])) = 1
    /\ chain[1].consensus_digest > 0

\* C12 as stated: child() never aborts, and the header it returns has
\* state = self.state + extrinsic and height = self.height + 1, also when a
\* sum exceeds the u64 maximum.
C12_ChildNeverFails ==
    /\ pc # "panicked"
    /\ (pc = "idle" /\ call # NoCall /\ corrupt = NoCorrupt) =>
          /\ chain[Len(chain)].state = call.self.state + call.extrinsic
          /\ chain[Len(chain)].height = call.self.height + 1

\* C13: verify_sub_chain(g, []) is true for every header g.
C13_EmptyChainAccepted ==
    (pc = "verified" /\ chain = <<>>) => verdict.base = "true"

C13_Witness ==
    /\ pc = "verified"
    /\ chain = <<>>
    /\ hash(anchor) >= THRESHOLD
    /\ anchor.height > FORK_HEIGHT
    /\ verdict.base = "true"

\* C14: genesis() returns the header with height, parent, extrinsic, state
\* and consensus_digest all 0, without entering the mining loop.
C14_GenesisIsFixed ==
    Len(locals) >= 1 =>
        /\ locals[1] = [parent |-> 0, height |-> 0, extrinsic |-> 0,
                        state |-> 0, consensus_digest |-> 0]
        /\ (Len(locals) = 1 /\ pc = "next") =>
              (valid_header = NoHeader /\ call = NoCall)

C14_Witness ==
    /\ pc = "next"
    /\ Len(locals) = 1
    /\ locals[1].consensus_digest = 0
    /\ valid_header = NoHeader

\* sum of the extrinsics of ch[1..i]
RECURSIVE ExtrinsicSum(_, _)
ExtrinsicSum(ch, i) == IF i = 0 THEN 0 ELSE ExtrinsicSum(ch, i - 1) + ch[i].extrinsic

\* C17: in a chain accepted by verify_sub_chain from anchor a, chain[i].state
\* is a.state plus the extrinsics of chain[0..i] (as a u64 sum).
C17_StateIsCumulativeSum ==
    (pc = "verified" /\ verdict.base = "true") =>
        \A i \in 1 .. Len(chain) :
            chain[i].state = Sum64(anchor.state, ExtrinsicSum(chain, i))

C17_Witness ==
    /\ pc = "verified"
    /\ verdict.base = "true"
    /\ anchor = genesis
    /\ Len(chain) = 2
    /\ chain[2].state = chain[1].extrinsic + chain[2].extrinsic
    /\ chain[1].extrinsic # chain[2].extrinsic

\* C18: a chain whose headers all have height <= FORK_HEIGHT gets the same
\* verdict from verify_sub_chain_even and verify_sub_chain_odd as from
\* verify_sub_chain, whatever the parity of its states.
C18_NoParityRuleUpToForkHeight ==
    (pc = "verified" /\ PastFork(chain) = {}) =>
        /\ verdict.even = verdict.base
        /\ verdict.odd = verdict.base

C18_Witness ==
    /\ pc = "verified"
    /\ Len(chain) = 2
    /\ chain[2].height = FORK_HEIGHT
    /\ chain[2].state % 2 = 0
    /\ chain[1].state % 2 = 1
    /\ verdict.odd = "true"
    /\ verdict.even = "true"

\* the header before position k + 1
TipAt(k) == IF k = 0 THEN anchor ELSE chain[k]

\* C19: for each verifier V and every split chain = c1 ++ c2, V(a, chain) is
\* true if and only if V(a, c1) is true and V(t, c2) is true, t being the last
\* header of c1 (a when c1 is empty).
C19_VerdictComposes ==
    pc = "verified" =>
        \A k \in 0 .. Len(chain) :
            LET c1 == SubSeq(chain, 1, k)
                c2 == SubSeq(chain, k + 1, Len(chain))
            IN  /\ verdict.base = "true"
                    <=> (verify_sub_chain(anchor, c1) = "true"
                         /\ verify_sub_chain(TipAt(k), c2) = "true")
                /\ verdict.even = "true"
                    <=> (verify_sub_chain_even(anchor, c1) = "true"
                         /\ verify_sub_chain_even(TipAt(k), c2) = "true")
                /\ verdict.odd = "true"
                    <=> (verify_sub_chain_odd(anchor, c1) = "true"
                         /\ verify_sub_chain_odd(TipAt(k), c2) = "true")

C19_Witness ==
    /\ pc = "verified"
    /\ Len(chain) = 2
    /\ verdict.base = "false"
    /\ verify_sub_chain(anchor, <<chain[1]>>) = "false"
    /\ verify_sub_chain(chain[1], <<chain[2]>>) = "true"

TwinParents == {0, 18, 29, 40}
TwinDigests == {0, 7, 14}

\* other headers with a's height, state and hash
Twins(a) ==
    {b \in {[a EXCEPT !.parent = p, !.consensus_digest = d] :
                p \in TwinParents, d \in TwinDigests} :
        b # a /\ hash(b) = hash(a)}

\* C20: the verdicts depend on the anchor only through its height, state and
\* hash, and a chain whose pairs satisfy rules 1-4 (and whose own headers
\* satisfy the parity rule) is accepted whether or not the anchor itself
\* passes Proof-of-Work or the parity rule.
C20_AnchorIsTrusted ==
    pc = "verified" =>
        /\ \A b \in Twins(anchor) : Verdicts(b, chain) = verdict
        /\ (\A i \in 1 .. Len(chain) : Linked(PrevOf(i), chain[i])) =>
              /\ verdict.base = "true"
              /\ (\A i \in PastFork(chain) : chain[i].state % 2 = 0)
                    => verdict.even = "true"
              /\ (\A i \in PastFork(chain) : chain[i].state % 2 = 1)
                    => verdict.odd = "true"

C20_Witness ==
    /\ pc = "verified"
    /\ Len(chain) >= 1
    /\ hash(anchor) >= THRESHOLD
    /\ anchor.height > FORK_HEIGHT
    /\ anchor.state % 2 = 0
    /\ Twins(anchor) # {}
    /\ verdict.odd = "true"

\* the last next_state call was made with a Move
Called == transition # NoTransition

\* C15: a Move whose piece colour is not the side to move, or whose piece is
\* not the piece standing on `from`, or whose `to` is not in the piece's move
\* set from `from`, leaves board, side_color, status and moves unchanged.
C15_RejectedMoveLeavesState ==
    (/\ Called
     /\ \/ transition.chess_piece.color # start.side_color
        \/ board_get(start.board, transition.from) # transition.chess_piece
        \/ transition.to \notin get_moves(transition.chess_piece, transition.from))
    => /\ game.board = start.board
       /\ game.side_color = start.side_color
       /\ game.status = start.status
       /\ game.moves = start.moves

C15_Witness ==
    /\ Called
    /\ start.moves > 0
    /\ start.side_color = "Black"
    /\ transition.chess_piece = Pawn("White")
    /\ board_get(start.board, transition.from) = Pawn("White")
    /\ transition.to \in get_moves(transition.chess_piece, transition.from)
    /\ game = start

\* C16 as stated: a Move whose piece belongs to the side to move, stands on
\* `from`, and whose `to` is in the piece's move set returns the starting
\* state with board_move(from, to) applied and side_color switched; from the
\* initial position so for pawn (7,1)->(6,2), bishop (8,3)->(7,4) and king
\* (8,5)->(8,4).
C16_MoveInMoveSetSucceeds ==
    (/\ Called
     /\ transition.chess_piece.color = start.side_color
     /\ board_get(start.board, transition.from) = transition.chess_piece
     /\ transition.to \in get_moves(transition.chess_piece, transition.from))
    => game = next_color(board_move(start, transition.from, transition.to).state,
                         start.side_color)

\* C21 as stated: verify_sub_chain always returns true or false, and returns
\* false for a chain with a header for which prev.state + header.extrinsic
\* exceeds the u64 maximum, as it does for a header after a prev whose height
\* is the u64 maximum.
C21_VerifyIsBooleanWithExactSums ==
    pc = "verified" =>
        /\ verdict.base \in {"true", "false"}
        /\ (\E i \in 1 .. Len(chain) :
                PrevOf(i).state + chain[i].extrinsic > U64_MAX)
              => verdict.base = "false"
        /\ (\E i \in 1 .. Len(chain) : PrevOf(i).height = U64_MAX)
              => verdict.base = "false"

\* C22: in a chain accepted by verify_sub_chain_even or verify_sub_chain_odd
\* with genesis as anchor, every header with height > FORK_HEIGHT + 1 has an
\* even extrinsic.
C22_EvenExtrinsicsPastFork ==
    (/\ pc = "verified"
     /\ anchor = genesis
     /\ (verdict.even = "true" \/ verdict.odd = "true"))
    => \A i \in 1 .. Len(chain) :
          chain[i].height > FORK_HEIGHT + 1 => chain[i].extrinsic % 2 = 0

C22_Witness ==
    /\ pc = "verified"
    /\ anchor = genesis
    /\ Len(chain) = FORK_HEIGHT + 2
    /\ chain[Len(chain)].height = FORK_HEIGHT + 2
    /\ chain[FORK_HEIGHT + 1].extrinsic % 2 = 1
    /\ verdict.odd = "true"

\* C23 as stated: a Move that changes the state leaves the piece on `to`,
\* the `from` square empty and the moves counter one higher, also when `to`
\* held an enemy piece.
C23_AcceptedMoveRelocates ==
    (Called /\ game # start) =>
        /\ board_get(game.board, transition.to) = transition.chess_piece
        /\ board_get(game.board, transition.from) = NoPiece
        /\ game.moves = start.moves + 1

\* the squares of the board among a set of positions
OnBoard(positions) == positions \cap Squares

\* C24: for a rook or a queen at (row, col), get_moves holds (row, col - 1)
\* but none of the on-board squares (row, col - i) with i >= 2, and holds
\* every on-board square (row + i, col), (row - i, col) and (row, col + i).
C24_RookMovesMissLeftward ==
    get_moves_call.chess_piece.kind \in {"Rook", "Queen"} =>
        LET row == get_moves_call.pos[1]
            col == get_moves_call.pos[2]
            moves == get_moves_call.moves
        IN  /\ OnBoard({<<row, col - 1>>}) \subseteq moves
            /\ OnBoard({<<row, col - i>> : i \in 2 .. (BOARD_MAX_SIZE - 1)}) \cap moves = {}
            /\ OnBoard({<<row + i, col>> : i \in Steps}) \subseteq moves
            /\ OnBoard({<<row - i, col>> : i \in Steps}) \subseteq moves
            /\ OnBoard({<<row, col + i>> : i \in Steps}) \subseteq moves

C24_Witness ==
    /\ get_moves_call.chess_piece = Rook("White")
    /\ get_moves_call.pos = <<8, 8>>
    /\ <<8, 7>> \in get_moves_call.moves
    /\ <<8, 6>> \notin get_moves_call.moves
    /\ <<1, 8>> \in get_moves_call.moves

====
